---- MODULE Spec2Model ----
(***************************************************************************)
(* Elastic binary trees, indirect multi-byte keys: __ebim_lookup and       *)
(* __ebim_insert of the ebxim header, and ebst_lookup_len of ebsttree.c.   *)
(*                                                                         *)
(* A record (struct ebxpt_node) is a number 1..MaxRec.  A tagged link      *)
(* (ebx_troot_t) is [ptr, tag]: ptr is a record, RootPtr (the tree handle) *)
(* or NullPtr; tag is EB_LEAF/EB_NODE for a downward link and              *)
(* EB_LEFT/EB_RGHT for a parent link.  Every insert of a run has the same  *)
(* <len>, KeyLen bytes.  A key buffer is a sequence of KeyLen+1 bytes: the *)
(* KeyLen compared bytes and the byte that follows them in memory.  TLA+   *)
(* sequences are 1-based: C byte i is key[i+1].                            *)
(***************************************************************************)
EXTENDS Integers, Sequences, FiniteSets, TLC

\* ---- bounds and inputs ----------------------------------------------------
MaxRec == 3             \* records the caller owns = insert calls of a run

Lens == {0, 1, 2}       \* values of <len>, in bytes
HeadVals == {0, 64, 96} \* values of the first byte of a key
BodyVals == {0, 64}     \* values of the other compared bytes
TailVals == {0, 128}    \* values of the byte after the compared bytes

\* ---- constants of ebxtree.h ---------------------------------------------
EB_LEFT == 0
EB_RGHT == 1
EB_LEAF == 0
EB_NODE == 1
NullPtr == 0
RootPtr == MaxRec + 1

Recs == 1..MaxRec

\* the key buffers for <len> = L
KeysOf == [L \in Lens |->
             {k \in [1..(L + 1) -> HeadVals \cup BodyVals \cup TailVals] :
                 /\ k[1] \in HeadVals
                 /\ \A i \in 2..L : k[i] \in BodyVals
                 /\ k[L + 1] \in TailVals}]

VARIABLES KeyLen, root, nodes, nIns, ret, path,
          wq,       \* an insert in progress: the writes it has still to do
          before,   \* the tree as the insert in progress found it, and
                    \* what the whole insert makes of it
          rdr       \* a lookup in progress: its local variables
vars == <<KeyLen, root, nodes, nIns, ret, path, wq, before, rdr>>

Keys == KeysOf[KeyLen]

\* the keys looked up: a lookup over n <= KeyLen bytes reads KeyLen bytes at most
Queries == {k \in Keys : k[KeyLen + 1] = 0}

\* ---- tagged links --------------------------------------------------------
ebx_dotag(p, t) == [ptr |-> p, tag |-> t]
NULL == ebx_dotag(NullPtr, 0)

\* ebx_setlink(&p->b[side], v), p the handle or a node
SetSlot(rt, nd, p, side, v) ==
    IF p = RootPtr
    THEN [root |-> [rt EXCEPT ![side] = v], nodes |-> nd]
    ELSE [root |-> rt, nodes |-> [nd EXCEPT ![p].b[side] = v]]

\* ---- bit primitives -------------------------------------------------------
Pow2(n) == 2 ^ n
Shr(v, n) == v \div Pow2(n)
BitAt(k, pos) == Shr(k[(pos \div 8) + 1], 7 - (pos % 8)) % 2

\* (a ^ b) > 1: a and b differ in a bit above bit 0
XorAbove1(a, b) == (a \div 2) # (b \div 2)

\* first bit in [start, limit) where a and b differ, else limit
RECURSIVE equal_bits(_, _, _, _)
equal_bits(a, b, start, limit) ==
    IF start >= limit THEN limit
    ELSE IF BitAt(a, start) # BitAt(b, start) THEN start
    ELSE equal_bits(a, b, start + 1, limit)

cmp_bits(a, b, pos) == BitAt(a, pos) - BitAt(b, pos)

\* mutant: memcmp over one byte less
MemDiffers_short(a, x, pos, len) ==
    \E i \in (pos + 1)..(pos + len - 1) : a[i] # x[i]

\* memcmp(a + pos, x + pos, len) != 0
MemDiffers(a, x, pos, len) == \E i \in (pos + 1)..(pos + len) : a[i] # x[i]

\* ---- __ebim_lookup ---------------------------------------------------------
\* mutant: walk_down along the right links
RECURSIVE walk_down_right(_, _)
walk_down_right(nd, troot) ==
    IF troot.tag = EB_LEAF THEN troot.ptr
    ELSE walk_down_right(nd, nd[troot.ptr].b[EB_RGHT])

\* walk_down: follow left links to the first leaf
RECURSIVE walk_down(_, _)
walk_down(nd, troot) ==
    IF troot.tag = EB_LEAF THEN troot.ptr
    ELSE walk_down(nd, nd[troot.ptr].b[EB_LEFT])

RECURSIVE lookup_walk(_, _, _, _, _)

\* the bit test: give up when more than the node's bit differs in the byte,
\* else walk down on the side of x's bit
lookup_side(nd, x, node, pos, len, node_bit) ==
    IF XorAbove1(Shr(nd[node].key[pos + 1], node_bit), Shr(x[pos + 1], node_bit))
    THEN NullPtr
    ELSE lookup_walk(nd, x, nd[node].b[Shr(x[pos + 1], node_bit) % 2], pos, len)

\* mutant: all bytes matched, but the walk goes on below the right branch
RECURSIVE lookup_bytes_right(_, _, _, _, _, _)
lookup_bytes_right(nd, x, node, pos, len, node_bit) ==
    IF nd[node].key[pos + 1] # x[pos + 1] THEN NullPtr
    ELSE IF len - 1 = 0 THEN walk_down(nd, nd[node].b[EB_RGHT])
    ELSE IF node_bit + 8 >= 0
    THEN lookup_side(nd, x, node, pos + 1, len - 1, node_bit + 8)
    ELSE lookup_bytes_right(nd, x, node, pos + 1, len - 1, node_bit + 8)

\* the byte loop: compare whole bytes until the byte of the node's bit
RECURSIVE lookup_bytes(_, _, _, _, _, _)
lookup_bytes(nd, x, node, pos, len, node_bit) ==
    IF nd[node].key[pos + 1] # x[pos + 1] THEN NullPtr
    ELSE IF len - 1 = 0 THEN walk_down(nd, nd[node].b[EB_LEFT])
    ELSE IF node_bit + 8 >= 0
    THEN lookup_side(nd, x, node, pos + 1, len - 1, node_bit + 8)
    ELSE lookup_bytes(nd, x, node, pos + 1, len - 1, node_bit + 8)

\* the while(1) loop; <x> has advanced by <pos> bytes, <len> bytes remain
lookup_walk(nd, x, troot, pos, len) ==
    IF troot.tag = EB_LEAF
    THEN IF MemDiffers(nd[troot.ptr].key, x, pos, len) THEN NullPtr ELSE troot.ptr
    ELSE IF nd[troot.ptr].bit < 0
    THEN IF MemDiffers(nd[troot.ptr].key, x, pos, len) THEN NullPtr
         ELSE walk_down(nd, nd[troot.ptr].b[EB_LEFT])
    ELSE IF (0 - nd[troot.ptr].bit - 1) + (pos * 8) + 8 < 0
    THEN lookup_bytes(nd, x, troot.ptr, pos, len,
                      (0 - nd[troot.ptr].bit - 1) + (pos * 8) + 8)
    ELSE lookup_side(nd, x, troot.ptr, pos, len,
                     (0 - nd[troot.ptr].bit - 1) + (pos * 8) + 8)

ebim_lookup(rt, nd, x, len) ==
    IF rt[EB_LEFT].ptr = NullPtr THEN NullPtr
    ELSE IF len = 0 THEN walk_down(nd, rt[EB_LEFT])
    ELSE lookup_walk(nd, x, rt[EB_LEFT], 0, len)

\* ---- ebst_lookup_len (ebsttree.c) ------------------------------------------------
\* ebmb_lookup: the inline-key engine, same walk as __ebim_lookup
ebmb_lookup(rt, nd, x, len) == ebim_lookup(rt, nd, x, len)

\* mutant: the terminator is not checked
ebst_lookup_len_prefix(rt, nd, x, len) == ebmb_lookup(rt, nd, x, len)

ebst_lookup_len(rt, nd, x, len) ==
    IF ebmb_lookup(rt, nd, x, len) = NullPtr THEN NullPtr
    ELSE IF nd[ebmb_lookup(rt, nd, x, len)].key[len + 1] # 0 THEN NullPtr
    ELSE ebmb_lookup(rt, nd, x, len)

\* ---- ebx_insert_dup (duplicate-chain collaborator) ---------------------------
Res(rt, nd, r, p) == [root |-> rt, nodes |-> nd, ret |-> r, path |-> p]

Branches(l, r) == [s \in {EB_LEFT, EB_RGHT} |-> IF s = EB_LEFT THEN l ELSE r]

\* deepest hole on the right branch of the duplicate tree
RECURSIVE dup_scan(_, _, _)
dup_scan(nd, head, sub) ==
    IF nd[head].b[EB_RGHT].tag = EB_LEAF THEN [head |-> head, sub |-> sub]
    ELSE LET nxt == nd[head].b[EB_RGHT].ptr
         IN  dup_scan(nd, nxt, IF nd[nxt].bit > nd[head].bit + 1 THEN nxt ELSE sub)

ebx_insert_dup(rt, nd, sub0, new) ==
    LET s        == dup_scan(nd, sub0, sub0)
        head     == s.head
        sub      == s.sub
        new_left == ebx_dotag(new, EB_LEFT)
        new_rght == ebx_dotag(new, EB_RGHT)
        new_leaf == ebx_dotag(new, EB_LEAF)
    IN  IF nd[head].bit < -1
        THEN LET leaf == nd[head].b[EB_RGHT].ptr
                 nd1  == [nd EXCEPT ![new].bit = -1,
                                    ![head].b[EB_RGHT] = ebx_dotag(new, EB_NODE),
                                    ![new].node_p = nd[leaf].leaf_p,
                                    ![new].leaf_p = new_rght,
                                    ![leaf].leaf_p = new_left,
                                    ![new].b = Branches(ebx_dotag(leaf, EB_LEAF), new_leaf)]
             IN  Res(rt, nd1, new, "insert_dup")
        ELSE LET up   == nd[sub].node_p
                 nd1  == [nd EXCEPT ![new].bit = nd[sub].bit - 1,
                                    ![new].node_p = up,
                                    ![new].leaf_p = new_rght,
                                    ![sub].node_p = new_left,
                                    ![new].b = Branches(ebx_dotag(sub, EB_NODE), new_leaf)]
                 st   == SetSlot(rt, nd1, up.ptr, up.tag, ebx_dotag(new, EB_NODE))
             IN  Res(st.root, st.nodes, new, "insert_dup")

\* ---- __ebim_insert -----------------------------------------------------------
\* mutant: the bit index stored is one too far
final_link_off(rt, nd, new, rp, side, bit, p) ==
    LET st == SetSlot(rt, [nd EXCEPT ![new].bit = IF bit < 0 THEN bit ELSE bit + 1],
                      rp, side, ebx_dotag(new, EB_NODE))
    IN  Res(st.root, st.nodes, new, p)

\* mutant: the parent slot takes the new record tagged as a leaf
final_link_leaf(rt, nd, new, rp, side, bit, p) ==
    LET st == SetSlot(rt, [nd EXCEPT ![new].bit = bit], rp, side,
                      ebx_dotag(new, EB_LEAF))
    IN  Res(st.root, st.nodes, new, p)

\* new->node.bit = bit; root->b[side] = new as node; return new
final_link(rt, nd, new, rp, side, bit, p) ==
    LET st == SetSlot(rt, [nd EXCEPT ![new].bit = bit], rp, side,
                      ebx_dotag(new, EB_NODE))
    IN  Res(st.root, st.nodes, new, p)

\* mutant: the operands of cmp_bits swapped
guarded_diff_swapped(a, b, bit, len) ==
    IF (bit \div 8) < len THEN cmp_bits(b, a, bit) ELSE 0

\* the guarded cmp_bits of the leaf case and of dup_tree; <len> is in bits here
guarded_diff(a, b, bit, len) ==
    IF (bit \div 8) < len THEN cmp_bits(a, b, bit) ELSE 0

\* mutant: an equal key is refused whatever the tag of the handle's right slot
insert_at_leaf_refuse(rt, nd, new, len, rp, side, troot, bit) ==
    LET old      == troot.ptr
        new_left == ebx_dotag(new, EB_LEFT)
        new_rght == ebx_dotag(new, EB_RGHT)
        new_leaf == ebx_dotag(new, EB_LEAF)
        old_leaf == ebx_dotag(old, EB_LEAF)
        nd1      == [nd EXCEPT ![new].node_p = nd[old].leaf_p]
        bit1     == equal_bits(nd[new].key, nd[old].key, bit, len)
        diff     == guarded_diff(nd[new].key, nd[old].key, bit1, len)
    IN  IF diff < 0
        THEN final_link(rt,
                 [nd1 EXCEPT ![new].leaf_p = new_left,
                             ![old].leaf_p = new_rght,
                             ![new].b = Branches(new_leaf, old_leaf)],
                 new, rp, side, bit1, "leaf_lt")
        ELSE IF diff = 0
        THEN Res(rt, nd1, old, "leaf_reject")
        ELSE final_link(rt,
                 [nd1 EXCEPT ![old].leaf_p = new_left,
                             ![new].leaf_p = new_rght,
                             ![new].b = Branches(old_leaf, new_leaf)],
                 new, rp, side, bit1, "leaf_gt")

\* mutant: on the right, the new leaf is written to both branches
insert_at_leaf_twice(rt, nd, new, len, rp, side, troot, bit) ==
    LET old      == troot.ptr
        new_left == ebx_dotag(new, EB_LEFT)
        new_rght == ebx_dotag(new, EB_RGHT)
        new_leaf == ebx_dotag(new, EB_LEAF)
        old_leaf == ebx_dotag(old, EB_LEAF)
        nd1      == [nd EXCEPT ![new].node_p = nd[old].leaf_p]
        bit1     == equal_bits(nd[new].key, nd[old].key, bit, len)
        diff     == guarded_diff(nd[new].key, nd[old].key, bit1, len)
    IN  IF diff < 0
        THEN final_link(rt,
                 [nd1 EXCEPT ![new].leaf_p = new_left,
                             ![old].leaf_p = new_rght,
                             ![new].b = Branches(new_leaf, old_leaf)],
                 new, rp, side, bit1, "leaf_lt")
        ELSE IF diff = 0 /\ rt[EB_RGHT].tag # 0
        THEN Res(rt, nd1, old, "leaf_reject")
        ELSE LET nd2 == [nd1 EXCEPT ![old].leaf_p = new_left,
                                    ![new].leaf_p = new_rght,
                                    ![new].b = Branches(new_leaf, new_leaf)]
             IN  IF diff = 0
                 THEN final_link(rt, nd2, new, rp, side, -1, "leaf_dup")
                 ELSE final_link(rt, nd2, new, rp, side, bit1, "leaf_gt")

\* troot is a leaf
insert_at_leaf(rt, nd, new, len, rp, side, troot, bit) ==
    LET old      == troot.ptr
        new_left == ebx_dotag(new, EB_LEFT)
        new_rght == ebx_dotag(new, EB_RGHT)
        new_leaf == ebx_dotag(new, EB_LEAF)
        old_leaf == ebx_dotag(old, EB_LEAF)
        nd1      == [nd EXCEPT ![new].node_p = nd[old].leaf_p]
        bit1     == equal_bits(nd[new].key, nd[old].key, bit, len)
        diff     == guarded_diff(nd[new].key, nd[old].key, bit1, len)
    IN  IF diff < 0
        THEN final_link(rt,
                 [nd1 EXCEPT ![new].leaf_p = new_left,
                             ![old].leaf_p = new_rght,
                             ![new].b = Branches(new_leaf, old_leaf)],
                 new, rp, side, bit1, "leaf_lt")
        ELSE IF diff = 0 /\ rt[EB_RGHT].tag # 0
        THEN Res(rt, nd1, old, "leaf_reject")
        ELSE LET nd2 == [nd1 EXCEPT ![old].leaf_p = new_left,
                                    ![new].leaf_p = new_rght,
                                    ![new].b = Branches(old_leaf, new_leaf)]
             IN  IF diff = 0
                 THEN final_link(rt, nd2, new, rp, side, -1, "leaf_dup")
                 ELSE final_link(rt, nd2, new, rp, side, bit1, "leaf_gt")

\* mutant: the bit index found is stored in the displaced node as well
insert_above_node_bit(rt, nd, new, len, rp, side, old, bit) ==
    LET new_left == ebx_dotag(new, EB_LEFT)
        new_rght == ebx_dotag(new, EB_RGHT)
        new_leaf == ebx_dotag(new, EB_LEAF)
        old_node == ebx_dotag(old, EB_NODE)
        nd1      == [nd EXCEPT ![new].node_p = nd[old].node_p]
        diff     == guarded_diff(nd[new].key, nd[old].key, bit, len)
    IN  IF diff < 0
        THEN final_link(rt,
                 [nd1 EXCEPT ![new].leaf_p = new_left,
                             ![old].node_p = new_rght,
                             ![old].bit = bit,
                             ![new].b = Branches(new_leaf, old_node)],
                 new, rp, side, bit, "node_lt")
        ELSE IF diff > 0
        THEN final_link(rt,
                 [nd1 EXCEPT ![old].node_p = new_left,
                             ![old].bit = bit,
                             ![new].leaf_p = new_rght,
                             ![new].b = Branches(old_node, new_leaf)],
                 new, rp, side, bit, "node_gt")
        ELSE ebx_insert_dup(rt, nd1, old, new)

\* mutant: the parent link of the displaced node is left as it was
insert_above_node_stale(rt, nd, new, len, rp, side, old, bit) ==
    LET new_left == ebx_dotag(new, EB_LEFT)
        new_rght == ebx_dotag(new, EB_RGHT)
        new_leaf == ebx_dotag(new, EB_LEAF)
        old_node == ebx_dotag(old, EB_NODE)
        nd1      == [nd EXCEPT ![new].node_p = nd[old].node_p]
        diff     == guarded_diff(nd[new].key, nd[old].key, bit, len)
    IN  IF diff < 0
        THEN final_link(rt,
                 [nd1 EXCEPT ![new].leaf_p = new_left,
                             ![new].b = Branches(new_leaf, old_node)],
                 new, rp, side, bit, "node_lt")
        ELSE IF diff > 0
        THEN final_link(rt,
                 [nd1 EXCEPT ![new].leaf_p = new_rght,
                             ![new].b = Branches(old_node, new_leaf)],
                 new, rp, side, bit, "node_gt")
        ELSE ebx_insert_dup(rt, nd1, old, new)

\* dup_tree: splice <new> above the node <old>, or hand over to ebx_insert_dup
insert_above_node(rt, nd, new, len, rp, side, old, bit) ==
    LET new_left == ebx_dotag(new, EB_LEFT)
        new_rght == ebx_dotag(new, EB_RGHT)
        new_leaf == ebx_dotag(new, EB_LEAF)
        old_node == ebx_dotag(old, EB_NODE)
        nd1      == [nd EXCEPT ![new].node_p = nd[old].node_p]
        diff     == guarded_diff(nd[new].key, nd[old].key, bit, len)
    IN  IF diff < 0
        THEN final_link(rt,
                 [nd1 EXCEPT ![new].leaf_p = new_left,
                             ![old].node_p = new_rght,
                             ![new].b = Branches(new_leaf, old_node)],
                 new, rp, side, bit, "node_lt")
        ELSE IF diff > 0
        THEN final_link(rt,
                 [nd1 EXCEPT ![old].node_p = new_left,
                             ![new].leaf_p = new_rght,
                             ![new].b = Branches(old_node, new_leaf)],
                 new, rp, side, bit, "node_gt")
        ELSE ebx_insert_dup(rt, nd1, old, new)

\* mutant: the walk also stops at a split point whose bit index is the first
\* bit not yet known equal
RECURSIVE insert_walk_le(_, _, _, _, _, _, _, _)
insert_walk_le(rt, nd, new, len, rp, side, troot, bit) ==
    IF troot.tag = EB_LEAF
    THEN insert_at_leaf(rt, nd, new, len, rp, side, troot, bit)
    ELSE LET old          == troot.ptr
             old_node_bit == nd[old].bit
             bit1 == IF old_node_bit < 0
                     THEN equal_bits(nd[new].key, nd[old].key, bit, len)
                     ELSE IF bit < old_node_bit
                     THEN equal_bits(nd[new].key, nd[old].key, bit, old_node_bit)
                     ELSE bit
         IN  IF old_node_bit < 0 \/ bit1 <= old_node_bit
             THEN insert_above_node(rt, nd, new, len, rp, side, old, bit1)
             ELSE LET s == BitAt(nd[new].key, old_node_bit)
                  IN  insert_walk_le(rt, nd, new, len, old, s, nd[old].b[s], bit1)

\* the descent loop
RECURSIVE insert_walk(_, _, _, _, _, _, _, _)
insert_walk(rt, nd, new, len, rp, side, troot, bit) ==
    IF troot.tag = EB_LEAF
    THEN insert_at_leaf(rt, nd, new, len, rp, side, troot, bit)
    ELSE LET old          == troot.ptr
             old_node_bit == nd[old].bit
             bit1 == IF old_node_bit < 0
                     THEN equal_bits(nd[new].key, nd[old].key, bit, len)
                     ELSE IF bit < old_node_bit
                     THEN equal_bits(nd[new].key, nd[old].key, bit, old_node_bit)
                     ELSE bit
         IN  IF old_node_bit < 0 \/ bit1 < old_node_bit
             THEN insert_above_node(rt, nd, new, len, rp, side, old, bit1)
             ELSE LET s == BitAt(nd[new].key, old_node_bit)
                  IN  insert_walk(rt, nd, new, len, old, s, nd[old].b[s], bit1)

\* mutant: on the empty tree the handle's left slot is not written
ebim_insert_nolink(rt, nd, new, len) ==
    IF rt[EB_LEFT].ptr = NullPtr
    THEN Res(rt,
             [nd EXCEPT ![new].leaf_p = ebx_dotag(RootPtr, EB_RGHT),
                        ![new].node_p = NULL],
             new, "empty")
    ELSE insert_walk(rt, nd, new, len * 8, RootPtr, EB_LEFT, rt[EB_LEFT], 0)

ebim_insert(rt, nd, new, len) ==
    IF rt[EB_LEFT].ptr = NullPtr
    THEN Res([rt EXCEPT ![EB_LEFT] = ebx_dotag(new, EB_LEAF)],
             [nd EXCEPT ![new].leaf_p = ebx_dotag(RootPtr, EB_LEFT),
                        ![new].node_p = NULL],
             new, "empty")
    ELSE insert_walk(rt, nd, new, len * 8, RootPtr, EB_LEFT, rt[EB_LEFT], 0)

\* ---- the state machine ---------------------------------------------------------
ZeroKey == [i \in 1..(KeyLen + 1) |-> 0]

Detached == [key |-> ZeroKey, node_p |-> NULL, leaf_p |-> NULL,
             b |-> Branches(NULL, NULL), bit |-> 0]

\* no lookup is running
Idle == [pc |-> "idle", x |-> << >>, n |-> 0, len |-> 0, pos |-> 0, troot |-> NULL,
         rp |-> NullPtr, side |-> EB_LEFT, next |-> "idle", res |-> NullPtr,
         hops |-> 0]

Init ==
    /\ KeyLen \in Lens
    /\ \E u \in {0, 1} :
          root = Branches(NULL, ebx_dotag(NullPtr, u))
    /\ nodes = [r \in Recs |-> Detached]
    /\ nIns = 0
    /\ ret = NullPtr
    /\ path = "none"
    /\ wq = << >>
    /\ before = [root |-> root, nodes |-> nodes, new |-> NullPtr,
                 whole |-> Res(root, nodes, NullPtr, "none")]
    /\ rdr = Idle

\* the caller sets new->key and calls ebim_insert(root, new, KeyLen)
Insert(k) ==
    /\ nIns < MaxRec
    /\ \E r \in {ebim_insert(root, [nodes EXCEPT ![nIns + 1].key = k],
                              nIns + 1, KeyLen)} :
           /\ root' = r.root
           /\ nodes' = r.nodes
           /\ ret' = r.ret
           /\ path' = r.path
    /\ nIns' = nIns + 1
    /\ UNCHANGED <<KeyLen, wq, before, rdr>>

Next == \E k \in Keys : Insert(k)

Spec == Init /\ [][Next]_vars

\* ---- what the claims speak of ----------------------------------------------------
unique == root[EB_RGHT].tag # 0
Inserted == 1..nIns

\* the leaves of a subtree, left to right
RECURSIVE LeafSeq(_, _)
LeafSeq(nd, troot) ==
    IF troot.ptr = NullPtr THEN << >>
    ELSE IF troot.tag = EB_LEAF THEN << troot.ptr >>
    ELSE LeafSeq(nd, nd[troot.ptr].b[EB_LEFT]) \o LeafSeq(nd, nd[troot.ptr].b[EB_RGHT])

\* the split points of a subtree
RECURSIVE NodeSet(_, _)
NodeSet(nd, troot) ==
    IF troot.ptr = NullPtr \/ troot.tag = EB_LEAF THEN {}
    ELSE {troot.ptr} \cup NodeSet(nd, nd[troot.ptr].b[EB_LEFT])
                     \cup NodeSet(nd, nd[troot.ptr].b[EB_RGHT])

Range(q) == {q[i] : i \in 1..Len(q)}
TreeLeaves == LeafSeq(nodes, root[EB_LEFT])
Lookup(x, n) == ebim_lookup(root, nodes, x, n)

\* a and b have the same first n bytes
SamePrefix(a, b, n) == \A i \in 1..n : a[i] = b[i]

\* a <= b as strings of n bytes
LexLE(a, b, n) ==
    \/ SamePrefix(a, b, n)
    \/ \E i \in 1..n : SamePrefix(a, b, i - 1) /\ a[i] < b[i]

\* every insert call so far had a key of its own (over the compared bytes)
DistinctKeys ==
    \A r1, r2 \in Inserted :
        r1 # r2 => ~SamePrefix(nodes[r1].key, nodes[r2].key, KeyLen)

\* C1: in a unique-mode tree built by inserts of pairwise-distinct keys, the
\* lookup of every inserted key over KeyLen bytes returns the record that was
\* inserted with that key.
C1_RoundTrip ==
    (unique /\ DistinctKeys) =>
        \A r \in Inserted : Lookup(nodes[r].key, KeyLen) = r

C1_Witness ==
    /\ unique /\ DistinctKeys /\ nIns = MaxRec
    /\ Len(TreeLeaves) = MaxRec
    /\ \A r \in Inserted : Lookup(nodes[r].key, KeyLen) = r

\* C3: when some stored key has the first n bytes of x
\* (1 <= n <= KeyLen), the lookup of x over n bytes returns the leftmost such
\* leaf of the tree, and no stored key with that prefix is smaller than the key
\* of the leaf returned.
C3_PrefixLookup ==
    \A q \in {TreeLeaves} : \A x \in Queries : \A n \in 1..KeyLen :
        \A hits \in {{i \in 1..Len(q) : SamePrefix(nodes[q[i]].key, x, n)}} :
            hits # {} =>
              \A first \in {i \in hits : \A j \in hits : i <= j} :
                /\ Lookup(x, n) = q[first]
                /\ \A j \in hits : LexLE(nodes[q[first]].key, nodes[q[j]].key, KeyLen)

C3_Witness ==
    \E x \in Keys : \E n \in 1..(KeyLen - 1) :
        LET q == TreeLeaves
            hits == {i \in 1..Len(q) : SamePrefix(nodes[q[i]].key, x, n)}
        IN  /\ Cardinality(hits) >= 2
            /\ Cardinality(hits) < Len(q)
            /\ Lookup(x, n) = q[CHOOSE i \in hits : \A j \in hits : i <= j]
            /\ \E i \in hits : ~SamePrefix(nodes[q[i]].key, x, KeyLen)

\* C4: a lookup over n bytes (1 <= n <= KeyLen) returns
\* nothing when no stored key has the first n bytes of x, and never returns a
\* record whose key differs from x in the first n bytes.
C4_NoMatch ==
    \A q \in {Range(TreeLeaves)} : \A x \in Queries : \A n \in 1..KeyLen :
        \A res \in {Lookup(x, n)} :
            /\ res # NullPtr => res \in q /\ SamePrefix(nodes[res].key, x, n)
            /\ (\A r \in q : ~SamePrefix(nodes[r].key, x, n)) => res = NullPtr

C4_Witness ==
    /\ Len(TreeLeaves) >= 2
    /\ \E x \in Keys : \E n \in 2..KeyLen :
          /\ \A r \in Range(TreeLeaves) : ~SamePrefix(nodes[r].key, x, n)
          /\ \E r \in Range(TreeLeaves) : SamePrefix(nodes[r].key, x, n - 1)
          /\ Lookup(x, n) = NullPtr

\* C7: a lookup over zero bytes returns the leftmost leaf of the whole tree,
\* whose key no stored key is smaller than, whatever x is; nothing on an
\* empty tree.
C7_EmptyLength ==
    \A q \in {TreeLeaves} :
        IF q = << >> THEN \A x \in Queries : Lookup(x, 0) = NullPtr
        ELSE /\ \A x \in Queries : Lookup(x, 0) = q[1]
             /\ \A i \in 1..Len(q) : LexLE(nodes[q[1]].key, nodes[q[i]].key, KeyLen)

C7_Witness ==
    /\ Len(TreeLeaves) = MaxRec
    /\ \E x \in Keys :
          /\ Lookup(x, 0) = TreeLeaves[1]
          /\ ~SamePrefix(nodes[TreeLeaves[1]].key, x, 1)
          /\ TreeLeaves[1] # 1

\* C2: in a unique-mode tree, an insert whose key equals a stored key over the
\* KeyLen compared bytes (whatever follows them in either buffer) returns the
\* first-inserted record with that key and changes neither the handle, nor the
\* leaves, nor any field of a record of the tree.
C2_DuplicateRejected ==
    [][ \A dups \in {{r \in Range(TreeLeaves) :
                        SamePrefix(nodes[r].key, nodes'[nIns + 1].key, KeyLen)}} :
          (nIns' = nIns + 1 /\ unique /\ dups # {}) =>
             /\ ret' \in dups /\ \A r \in dups : ret' <= r
             /\ ret' # nIns + 1
             /\ root' = root
             /\ LeafSeq(nodes', root'[EB_LEFT]) = TreeLeaves
             /\ \A r \in Range(TreeLeaves) \cup NodeSet(nodes, root[EB_LEFT]) :
                   nodes'[r] = nodes[r]
      ]_vars

\* C5: in a non-unique tree, the insert of a second record whose key equals the
\* key of one stored record over the KeyLen compared bytes leaves both as
\* distinct leaves, and the lookup of the key over KeyLen bytes returns the
\* first-inserted of the two.
C5_DuplicateAdmitted ==
    [][ \A dups \in {{r \in Range(TreeLeaves) :
                        SamePrefix(nodes[r].key, nodes'[nIns + 1].key, KeyLen)}} :
          (nIns' = nIns + 1 /\ ~unique /\ Cardinality(dups) = 1) =>
             \A first \in dups :
                /\ first \in Range(LeafSeq(nodes', root'[EB_LEFT]))
                /\ (nIns + 1) \in Range(LeafSeq(nodes', root'[EB_LEFT]))
                /\ first # nIns + 1
                /\ ebim_lookup(root', nodes', nodes'[nIns + 1].key, KeyLen) = first
      ]_vars

\* C6: the last insert returned a record other than the new one only when the
\* tree is unique-mode and a stored record had the same key over the compared
\* length; in every other case it returned the new record, which is a leaf.
C6_InsertReturn ==
    nIns >= 1 =>
        \A q \in {Range(TreeLeaves)} :
        \A present \in {\E r \in q \ {nIns} :
                           SamePrefix(nodes[r].key, nodes[nIns].key, KeyLen)} :
            /\ ret # nIns => unique /\ present
            /\ ~(unique /\ present) => ret = nIns /\ nIns \in q

C6_Witness ==
    /\ nIns >= 2 /\ unique /\ ret # nIns /\ ret \in Range(TreeLeaves)
    /\ nIns \notin Range(TreeLeaves)

\* a null-terminated key of at most KeyLen characters, in its buffer of
\* KeyLen+1 bytes: a zero byte follows the compared bytes, and only zero bytes
\* follow the first zero byte, so that comparing KeyLen bytes compares the
\* strings up to their terminators
StringKey(k) ==
    /\ k[KeyLen + 1] = 0
    /\ \A i \in 1..KeyLen : k[i] = 0 => k[i + 1] = 0

StringTree == \A r \in Range(TreeLeaves) : StringKey(nodes[r].key)

\* the key of r is the len bytes of x and the terminator
ExactString(r, x, len) ==
    SamePrefix(nodes[r].key, x, len) /\ nodes[r].key[len + 1] = 0

\* C8: on a tree of null-terminated keys, ebst_lookup_len of x (no zero byte in
\* its first len bytes) returns a record exactly when a stored key is the len
\* bytes of x followed by the terminator, and the record returned has that key.
C8_ExactString ==
    \A q \in {Range(TreeLeaves)} :
        (\A r \in q : StringKey(nodes[r].key)) =>
            \A x \in Queries : \A len \in 0..KeyLen :
                (\A i \in 1..len : x[i] # 0) =>
                    \A res \in {ebst_lookup_len(root, nodes, x, len)} :
                        /\ res # NullPtr => res \in q /\ ExactString(res, x, len)
                        /\ (\E r \in q : ExactString(r, x, len)) => res # NullPtr

C8_Witness ==
    /\ StringTree
    /\ \E x \in Queries : \E len \in 1..(KeyLen - 1) :
          /\ \A i \in 1..len : x[i] # 0
          /\ \E r \in Range(TreeLeaves) :
                SamePrefix(nodes[r].key, x, len) /\ nodes[r].key[len + 1] # 0
          /\ ebst_lookup_len(root, nodes, x, len) # NullPtr
          /\ ExactString(ebst_lookup_len(root, nodes, x, len), x, len)

\* C9: on the tree without insert every lookup returns nothing; after the first
\* insert the new record is the only leaf, under the left slot of the handle,
\* it was returned, and the lookup of its key returns it.
C9_EmptyTree ==
    /\ nIns = 0 => \A x \in Queries : \A n \in 0..(KeyLen + 1) :
                      /\ Lookup(x, n) = NullPtr
                      /\ ebst_lookup_len(root, nodes, x, n) = NullPtr
    /\ nIns = 1 => /\ root[EB_LEFT] = ebx_dotag(1, EB_LEAF)
                   /\ TreeLeaves = << 1 >>
                   /\ ret = 1
                   /\ Lookup(nodes[1].key, KeyLen) = 1

C9_Witness ==
    nIns = 1 /\ ret = 1 /\ path = "empty" /\ Lookup(nodes[1].key, KeyLen) = 1

\* C10: under every ordinary split point the keys on the left have bit 0 at its
\* bit index and the keys on the right have bit 1, and every ordinary split
\* point below it has a larger bit index.
C10_Ordering ==
    \A p \in NodeSet(nodes, root[EB_LEFT]) :
        nodes[p].bit >= 0 =>
            /\ \A r \in Range(LeafSeq(nodes, nodes[p].b[EB_LEFT])) :
                  BitAt(nodes[r].key, nodes[p].bit) = 0
            /\ \A r \in Range(LeafSeq(nodes, nodes[p].b[EB_RGHT])) :
                  BitAt(nodes[r].key, nodes[p].bit) = 1
            /\ \A c \in NodeSet(nodes, nodes[p].b[EB_LEFT])
                          \cup NodeSet(nodes, nodes[p].b[EB_RGHT]) :
                  nodes[c].bit >= 0 => nodes[c].bit > nodes[p].bit

C10_Witness ==
    /\ Len(TreeLeaves) = MaxRec
    /\ \E p \in NodeSet(nodes, root[EB_LEFT]) :
          /\ nodes[p].bit >= 0
          /\ \E c \in NodeSet(nodes, nodes[p].b[EB_RGHT]) :
                /\ nodes[c].bit > nodes[p].bit
                /\ nodes[c].bit \div 8 = nodes[p].bit \div 8

\* ---- the shape of the last splice ------------------------------------------------
\* the insert paths on which <new> became an ordinary split point
SplicePaths == {"leaf_lt", "leaf_gt", "node_lt", "node_gt"}

\* the side of the new split point that holds the new leaf
NewSide(nd, new) == IF nd[new].b[EB_LEFT] = ebx_dotag(new, EB_LEAF) THEN EB_LEFT ELSE EB_RGHT

\* the displaced leaf or subtree: the other branch of the new split point
Displaced(nd, new) == nd[new].b[1 - NewSide(nd, new)]

\* the first bit position below n*8 at which a and b differ, n*8 when none
FirstDiff(a, b, n) ==
    IF \A i \in 0..(n * 8 - 1) : BitAt(a, i) = BitAt(b, i) THEN n * 8
    ELSE CHOOSE i \in 0..(n * 8 - 1) :
            /\ BitAt(a, i) # BitAt(b, i)
            /\ \A j \in 0..(i - 1) : BitAt(a, j) = BitAt(b, j)

\* C11: when the last insert made the new record an ordinary split point, its
\* bit index is the first bit position at which the new key differs from every
\* key of the displaced leaf or subtree, and that position is below KeyLen*8.
C11_SplitBitIndex ==
    path \in SplicePaths =>
        /\ nodes[nIns].bit < KeyLen * 8
        /\ \A r \in Range(LeafSeq(nodes, Displaced(nodes, nIns))) :
              nodes[nIns].bit = FirstDiff(nodes[nIns].key, nodes[r].key, KeyLen)

\* ---- __ebim_lookup, one read of a link per step -----------------------------------
\* the result of a lookup that read a link through a null reference
Fault == RootPtr + 1

\* how one turn of the while(1) loop ends: "ret" (ret_node, ret_null),
\* "walk_left", or "loop" after the read of node->branches.b[side]
Turn(k, res, node, side, pos, len) ==
    [k |-> k, res |-> res, node |-> node, side |-> side, pos |-> pos, len |-> len]

\* the bit test of one turn
turn_side(nd, x, node, pos, len, node_bit) ==
    IF XorAbove1(Shr(nd[node].key[pos + 1], node_bit), Shr(x[pos + 1], node_bit))
    THEN Turn("ret", NullPtr, node, EB_LEFT, pos, len)
    ELSE Turn("loop", NullPtr, node, Shr(x[pos + 1], node_bit) % 2, pos, len)

\* the byte loop of one turn
RECURSIVE turn_bytes(_, _, _, _, _, _)
turn_bytes(nd, x, node, pos, len, node_bit) ==
    IF nd[node].key[pos + 1] # x[pos + 1] THEN Turn("ret", NullPtr, node, EB_LEFT, pos, len)
    ELSE IF len - 1 = 0 THEN Turn("walk_left", NullPtr, node, EB_LEFT, pos + 1, 0)
    ELSE IF node_bit + 8 >= 0
    THEN turn_side(nd, x, node, pos + 1, len - 1, node_bit + 8)
    ELSE turn_bytes(nd, x, node, pos + 1, len - 1, node_bit + 8)

\* one turn of the while(1) loop on the link <troot> already read
lookup_turn(nd, x, troot, pos, len) ==
    IF troot.ptr = NullPtr THEN Turn("ret", Fault, NullPtr, EB_LEFT, pos, len)
    ELSE IF troot.tag = EB_LEAF
    THEN Turn("ret",
              IF MemDiffers(nd[troot.ptr].key, x, pos, len) THEN NullPtr ELSE troot.ptr,
              troot.ptr, EB_LEFT, pos, len)
    ELSE IF nd[troot.ptr].bit < 0
    THEN IF MemDiffers(nd[troot.ptr].key, x, pos, len)
         THEN Turn("ret", NullPtr, troot.ptr, EB_LEFT, pos, len)
         ELSE Turn("walk_left", NullPtr, troot.ptr, EB_LEFT, pos, len)
    ELSE IF (0 - nd[troot.ptr].bit - 1) + (pos * 8) + 8 < 0
    THEN turn_bytes(nd, x, troot.ptr, pos, len,
                    (0 - nd[troot.ptr].bit - 1) + (pos * 8) + 8)
    ELSE turn_side(nd, x, troot.ptr, pos, len,
                   (0 - nd[troot.ptr].bit - 1) + (pos * 8) + 8)

\* the lookup reads root->b[EB_LEFT]
RRoot ==
    /\ rdr.pc = "root"
    /\ rdr' = IF root[EB_LEFT].ptr = NullPtr
              THEN [rdr EXCEPT !.pc = "done", !.res = NullPtr]
              ELSE [rdr EXCEPT !.pc = IF rdr.len = 0 THEN "walk_down" ELSE "loop",
                               !.troot = root[EB_LEFT], !.rp = RootPtr,
                               !.hops = 1]
    /\ UNCHANGED <<KeyLen, root, nodes, nIns, ret, path, wq, before>>

\* one turn of the while(1) loop, up to its read of a link
RLoop ==
    /\ rdr.pc = "loop"
    /\ \E t \in {lookup_turn(nodes, rdr.x, rdr.troot, rdr.pos, rdr.len)} :
          rdr' = IF t.k = "ret"
                 THEN [rdr EXCEPT !.pc = "done", !.res = t.res]
                 ELSE [rdr EXCEPT !.pc = "read", !.rp = t.node, !.side = t.side,
                                  !.pos = t.pos, !.len = t.len,
                                  !.next = IF t.k = "loop" THEN "loop" ELSE "walk_down"]
    /\ UNCHANGED <<KeyLen, root, nodes, nIns, ret, path, wq, before>>

\* troot = ebx_getroot(&node->node.branches.b[side])
RRead ==
    /\ rdr.pc = "read"
    /\ rdr' = [rdr EXCEPT !.pc = rdr.next, !.troot = nodes[rdr.rp].b[rdr.side],
                          !.hops = rdr.hops + 1]
    /\ UNCHANGED <<KeyLen, root, nodes, nIns, ret, path, wq, before>>

\* one turn of the walk_down loop
RDown ==
    /\ rdr.pc = "walk_down"
    /\ rdr' = IF rdr.troot.ptr = NullPtr
              THEN [rdr EXCEPT !.pc = "done", !.res = Fault]
              ELSE IF rdr.troot.tag = EB_LEAF
              THEN [rdr EXCEPT !.pc = "done", !.res = rdr.troot.ptr]
              ELSE [rdr EXCEPT !.pc = "read", !.rp = rdr.troot.ptr,
                               !.side = EB_LEFT, !.next = "walk_down"]
    /\ UNCHANGED <<KeyLen, root, nodes, nIns, ret, path, wq, before>>

RNext == RRoot \/ RLoop \/ RRead \/ RDown

\* ---- __ebim_insert, one write per step ---------------------------------------------
\* where the descent loop stops: the link <troot>, the slot it was read from,
\* and the number of "walk down" steps from <troot> to there
RECURSIVE walk_stop(_, _, _, _, _, _, _)
walk_stop(nd, new, len, rp, side, troot, bit) ==
    IF troot.tag = EB_LEAF
    THEN [rp |-> rp, side |-> side, troot |-> troot, passed |-> 0]
    ELSE LET old          == troot.ptr
             old_node_bit == nd[old].bit
             bit1 == IF old_node_bit < 0
                     THEN equal_bits(nd[new].key, nd[old].key, bit, len)
                     ELSE IF bit < old_node_bit
                     THEN equal_bits(nd[new].key, nd[old].key, bit, old_node_bit)
                     ELSE bit
         IN  IF old_node_bit < 0 \/ bit1 < old_node_bit
             THEN [rp |-> rp, side |-> side, troot |-> troot, passed |-> 0]
             ELSE LET s == BitAt(nd[new].key, old_node_bit)
                  IN  [walk_stop(nd, new, len, old, s, nd[old].b[s], bit1)
                          EXCEPT !.passed = @ + 1]

\* one write: field <f> of <p> (slot <side> of its branches) takes link <v>,
\* or number <n>
W(p, f, side, v, n) == [p |-> p, f |-> f, side |-> side, v |-> v, n |-> n]

\* mutant: the link to the new split point is written first
insert_writes_early(nd, new, p, bit, rp, side, old) ==
    LET new_left == ebx_dotag(new, EB_LEFT)
        new_rght == ebx_dotag(new, EB_RGHT)
        new_leaf == ebx_dotag(new, EB_LEAF)
        old_leaf == ebx_dotag(old, EB_LEAF)
        old_node == ebx_dotag(old, EB_NODE)
        publish  == << W(new, "bit", 0, NULL, bit),
                       W(rp, "b", side, ebx_dotag(new, EB_NODE), 0) >>
    IN  CASE p = "empty" ->
               << W(RootPtr, "b", EB_LEFT, new_leaf, 0),
                  W(new, "leaf_p", 0, ebx_dotag(RootPtr, EB_LEFT), 0),
                  W(new, "node_p", 0, NULL, 0) >>
          [] p = "leaf_reject" ->
               << W(new, "node_p", 0, nd[old].leaf_p, 0) >>
          [] p = "leaf_lt" ->
               publish \o
               << W(new, "node_p", 0, nd[old].leaf_p, 0),
                  W(new, "leaf_p", 0, new_left, 0),
                  W(old, "leaf_p", 0, new_rght, 0),
                  W(new, "b", EB_LEFT, new_leaf, 0),
                  W(new, "b", EB_RGHT, old_leaf, 0) >>
          [] p \in {"leaf_gt", "leaf_dup"} ->
               publish \o
               << W(new, "node_p", 0, nd[old].leaf_p, 0),
                  W(old, "leaf_p", 0, new_left, 0),
                  W(new, "leaf_p", 0, new_rght, 0),
                  W(new, "b", EB_LEFT, old_leaf, 0),
                  W(new, "b", EB_RGHT, new_leaf, 0) >>
          [] p = "node_lt" ->
               publish \o
               << W(new, "node_p", 0, nd[old].node_p, 0),
                  W(new, "leaf_p", 0, new_left, 0),
                  W(old, "node_p", 0, new_rght, 0),
                  W(new, "b", EB_LEFT, new_leaf, 0),
                  W(new, "b", EB_RGHT, old_node, 0) >>
          [] p = "node_gt" ->
               publish \o
               << W(new, "node_p", 0, nd[old].node_p, 0),
                  W(old, "node_p", 0, new_left, 0),
                  W(new, "leaf_p", 0, new_rght, 0),
                  W(new, "b", EB_LEFT, old_node, 0),
                  W(new, "b", EB_RGHT, new_leaf, 0) >>
          [] p = "insert_dup" ->
               << W(new, "node_p", 0, nd[old].node_p, 0),
                  W(old, "ebx_insert_dup", 0, NULL, new) >>

\* the writes of __ebim_insert in program order, when the walk stopped at <old>
\* below slot <side> of <rp> on path <p> with <bit> the bit index found
insert_writes(nd, new, p, bit, rp, side, old) ==
    LET new_left == ebx_dotag(new, EB_LEFT)
        new_rght == ebx_dotag(new, EB_RGHT)
        new_leaf == ebx_dotag(new, EB_LEAF)
        old_leaf == ebx_dotag(old, EB_LEAF)
        old_node == ebx_dotag(old, EB_NODE)
        publish  == << W(new, "bit", 0, NULL, bit),
                       W(rp, "b", side, ebx_dotag(new, EB_NODE), 0) >>
    IN  CASE p = "empty" ->
               << W(RootPtr, "b", EB_LEFT, new_leaf, 0),
                  W(new, "leaf_p", 0, ebx_dotag(RootPtr, EB_LEFT), 0),
                  W(new, "node_p", 0, NULL, 0) >>
          [] p = "leaf_reject" ->
               << W(new, "node_p", 0, nd[old].leaf_p, 0) >>
          [] p = "leaf_lt" ->
               << W(new, "node_p", 0, nd[old].leaf_p, 0),
                  W(new, "leaf_p", 0, new_left, 0),
                  W(old, "leaf_p", 0, new_rght, 0),
                  W(new, "b", EB_LEFT, new_leaf, 0),
                  W(new, "b", EB_RGHT, old_leaf, 0) >> \o publish
          [] p \in {"leaf_gt", "leaf_dup"} ->
               << W(new, "node_p", 0, nd[old].leaf_p, 0),
                  W(old, "leaf_p", 0, new_left, 0),
                  W(new, "leaf_p", 0, new_rght, 0),
                  W(new, "b", EB_LEFT, old_leaf, 0),
                  W(new, "b", EB_RGHT, new_leaf, 0) >> \o publish
          [] p = "node_lt" ->
               << W(new, "node_p", 0, nd[old].node_p, 0),
                  W(new, "leaf_p", 0, new_left, 0),
                  W(old, "node_p", 0, new_rght, 0),
                  W(new, "b", EB_LEFT, new_leaf, 0),
                  W(new, "b", EB_RGHT, old_node, 0) >> \o publish
          [] p = "node_gt" ->
               << W(new, "node_p", 0, nd[old].node_p, 0),
                  W(old, "node_p", 0, new_left, 0),
                  W(new, "leaf_p", 0, new_rght, 0),
                  W(new, "b", EB_LEFT, old_node, 0),
                  W(new, "b", EB_RGHT, new_leaf, 0) >> \o publish
          [] p = "insert_dup" ->
               << W(new, "node_p", 0, nd[old].node_p, 0),
                  W(old, "ebx_insert_dup", 0, NULL, new) >>

\* the tree after one write
ApplyWrite(rt, nd, w) ==
    CASE w.f = "b"      -> SetSlot(rt, nd, w.p, w.side, w.v)
      [] w.f = "node_p" -> [root |-> rt, nodes |-> [nd EXCEPT ![w.p].node_p = w.v]]
      [] w.f = "leaf_p" -> [root |-> rt, nodes |-> [nd EXCEPT ![w.p].leaf_p = w.v]]
      [] w.f = "bit"    -> [root |-> rt, nodes |-> [nd EXCEPT ![w.p].bit = w.n]]
      [] w.f = "ebx_insert_dup" ->
            [root  |-> ebx_insert_dup(rt, nd, w.p, w.n).root,
             nodes |-> ebx_insert_dup(rt, nd, w.p, w.n).nodes]

\* what the insert in progress gives when nothing runs between its steps
After == before.whole

\* the tree is built by whole inserts before the lookup and the insert that run
\* together
Build(k) ==
    /\ rdr.pc = "idle"
    /\ Insert(k)

\* two callers at once: one sets new->key and calls ebim_insert(root, new,
\* KeyLen), which walks down to where it stops; the other calls
\* ebim_lookup(root, x, n)
Start(k, x, n) ==
    /\ rdr.pc = "idle"
    /\ nIns < MaxRec
    /\ \E new \in {nIns + 1} :
       \E nd \in {[nodes EXCEPT ![new].key = k]} :
       \E r \in {ebim_insert(root, nd, new, KeyLen)} :
       \E s \in {IF root[EB_LEFT].ptr = NullPtr
                 THEN [rp |-> RootPtr, side |-> EB_LEFT, troot |-> NULL, passed |-> 0]
                 ELSE walk_stop(nd, new, KeyLen * 8, RootPtr, EB_LEFT,
                                root[EB_LEFT], 0)} :
          /\ nodes' = nd
          /\ before' = [root |-> root, nodes |-> nd, new |-> new, whole |-> r]
          /\ wq' = insert_writes(nd, new, r.path, r.nodes[new].bit,
                                 s.rp, s.side, s.troot.ptr)
    /\ rdr' = [Idle EXCEPT !.pc = "root", !.x = x, !.n = n, !.len = n]
    /\ UNCHANGED <<KeyLen, root, nIns, ret, path>>

\* the insert does its next write; after the last one it returns
WStep ==
    /\ wq # << >>
    /\ \E st \in {ApplyWrite(root, nodes, Head(wq))} :
          /\ root' = st.root
          /\ nodes' = st.nodes
    /\ wq' = Tail(wq)
    /\ IF Len(wq) = 1
       THEN \E r \in {After} :
               /\ ret' = r.ret
               /\ path' = r.path
               /\ nIns' = nIns + 1
       ELSE UNCHANGED <<nIns, ret, path>>
    /\ UNCHANGED <<KeyLen, before, rdr>>

\* the keys inserted here have a zero byte after the compared bytes (the test
\* of rdr.pc comes first so that the inputs are enumerated only when Build and
\* Start can happen)
NextRW ==
    \/ rdr.pc = "idle" /\ \E k \in Queries : Build(k)
    \/ rdr.pc = "idle" /\ \E k \in Queries : \E x \in Queries : \E n \in 0..KeyLen :
                             Start(k, x, n)
    \/ WStep
    \/ RRoot
    \/ RLoop
    \/ RRead
    \/ RDown

SpecRW == Init /\ [][NextRW]_vars

\* the lookup in progress has returned
Returned == rdr.pc = "done"

\* the insert in progress has returned
Inserted1 == rdr.pc # "idle" /\ wq = << >>

\* C12: a lookup that runs together with one insert, each read and each write
\* of a link one step, returns what the same lookup returns on the tree before
\* the insert or on the tree after it (the insert linking the record itself,
\* not through ebx_insert_dup); it can always take its next step and reads no
\* more links than the tree has records; and the writes of the insert, done
\* one by one, leave the tree of the whole insert.
C12_ConcurrentReader ==
    /\ (Returned /\ After.path # "insert_dup") =>
          \E t \in {before, After} : rdr.res = ebim_lookup(t.root, t.nodes, rdr.x, rdr.n)
    /\ rdr.pc \notin {"idle", "done"} => ENABLED RNext
    /\ rdr.hops <= nIns + 1
    /\ Inserted1 => \A r \in {After} : root = r.root /\ nodes = r.nodes

\* the lookup read the link to the displaced subtree from its slot, the insert
\* then put the new split point in that slot and returned, and the lookup, still
\* running below, is one whose result the insert changes
C12_Witness ==
    /\ Inserted1
    /\ path \in SplicePaths
    /\ rdr.pc = "loop"
    /\ rdr.troot = Displaced(nodes, nIns)
    /\ ebx_dotag(rdr.rp, rdr.side) = nodes[nIns].node_p
    /\ ebim_lookup(before.root, before.nodes, rdr.x, rdr.n)
          # ebim_lookup(root, nodes, rdr.x, rdr.n)

\* ---- the links of the tree -----------------------------------------------------
\* what the slot named by the parent link <up> holds
SlotOf(rt, nd, up) == IF up.ptr = RootPtr THEN rt[up.tag] ELSE nd[up.ptr].b[up.tag]

\* the slots of the tree: the left slot of the handle, both slots of every
\* split point
TreeSlots ==
    {ebx_dotag(RootPtr, EB_LEFT)}
        \cup {ebx_dotag(p, sd) : p \in NodeSet(nodes, root[EB_LEFT]), sd \in {EB_LEFT, EB_RGHT}}

\* C13: after every insert, the leaf_p of every record of the tree names a slot
\* that holds the record as a leaf, the node_p of every split point names a
\* slot that holds it as a node, and every slot of the tree is the one named
\* by the leaf_p (for a leaf) or the node_p (for a node) of what it holds.
C13_BackReferences ==
    /\ \A r \in Range(TreeLeaves) :
          SlotOf(root, nodes, nodes[r].leaf_p) = ebx_dotag(r, EB_LEAF)
    /\ \A p \in NodeSet(nodes, root[EB_LEFT]) :
          SlotOf(root, nodes, nodes[p].node_p) = ebx_dotag(p, EB_NODE)
    /\ \A up \in TreeSlots : \A c \in {SlotOf(root, nodes, up)} :
          c.ptr # NullPtr =>
             up = (IF c.tag = EB_LEAF THEN nodes[c.ptr].leaf_p ELSE nodes[c.ptr].node_p)

\* the last insert spliced the new record above a split point, which now names
\* a slot of the new record as its parent
C13_Witness ==
    /\ nIns = MaxRec /\ Len(TreeLeaves) = MaxRec
    /\ path \in {"node_lt", "node_gt"}
    /\ Displaced(nodes, nIns).tag = EB_NODE
    /\ nodes[Displaced(nodes, nIns).ptr].node_p.ptr = nIns
    /\ SlotOf(root, nodes, nodes[nIns].node_p) = ebx_dotag(nIns, EB_NODE)
    /\ SlotOf(root, nodes, nodes[nIns].leaf_p) = ebx_dotag(nIns, EB_LEAF)

\* ---- the two roles of a record ---------------------------------------------------
TreeNodes == NodeSet(nodes, root[EB_LEFT])

\* C14 as claimed: a record that the last insert put into a non-empty tree is
\* a leaf only, no slot of the tree holds it as a split point.
C14_LeafOnlyAfterInsert ==
    (nIns >= 2 /\ ret = nIns) =>
        /\ nIns \in Range(TreeLeaves)
        /\ nIns \notin TreeNodes

\* C14 amended: an insert makes the new record a leaf when it returns it, and
\* makes it a split point as well exactly when the tree was not empty; it
\* turns no record inserted earlier into a split point and none back into a
\* leaf only.
C14_Lifecycle ==
    [][ nIns' = nIns + 1 =>
          \A before_nodes \in {TreeNodes} :
          \A after_nodes \in {NodeSet(nodes', root'[EB_LEFT])} :
             /\ \A r \in Inserted : (r \in after_nodes) <=> (r \in before_nodes)
             /\ ret' = nIns + 1 =>
                   (nIns + 1) \in Range(LeafSeq(nodes', root'[EB_LEFT]))
             /\ ((nIns + 1) \in after_nodes)
                   <=> (ret' = nIns + 1 /\ root[EB_LEFT].ptr # NullPtr)
      ]_vars

\* the first record is a leaf only after two later inserts, each of which made
\* its own record a leaf and a split point at once
C14_Witness ==
    /\ nIns = MaxRec
    /\ Range(TreeLeaves) = Inserted
    /\ TreeNodes = Inserted \ {1}
    /\ nodes[2].b[EB_LEFT].ptr # nodes[2].b[EB_RGHT].ptr
    /\ ebx_dotag(2, EB_LEAF) \in {nodes[2].b[EB_LEFT], nodes[2].b[EB_RGHT]}

\* no key (over the compared bytes) was inserted three times: no insert met a
\* group of duplicates of its key
NoTriple ==
    \A r1, r2, r3 \in Inserted :
        (r1 < r2 /\ r2 < r3) =>
            ~(SamePrefix(nodes[r1].key, nodes[r2].key, KeyLen)
                /\ SamePrefix(nodes[r2].key, nodes[r3].key, KeyLen))

\* the slots of the tree that hold record r with tag t
Holders(r, t) == {up \in TreeSlots : SlotOf(root, nodes, up) = ebx_dotag(r, t)}

\* C15: when the last insert introduced a split point, it is the node part of
\* the record inserted, in the slot that held what it displaced, with the new
\* leaf as one branch; and after nIns >= 1 inserts that were all accepted
\* (duplicates allowed, or keys all distinct) and none met a group of
\* duplicates, every record is held as a leaf by exactly one slot and as a
\* split point by at most one, with nIns leaves and nIns-1 split points.
C15_OneRecordTwoRoles ==
    /\ path \in SplicePaths \cup {"leaf_dup"} =>
          /\ ret = nIns
          /\ SlotOf(root, nodes, nodes[nIns].node_p) = ebx_dotag(nIns, EB_NODE)
          /\ nodes[nIns].b[NewSide(nodes, nIns)] = ebx_dotag(nIns, EB_LEAF)
          /\ Displaced(nodes, nIns).ptr \in Inserted \ {nIns}
    /\ (nIns >= 1 /\ (~unique \/ DistinctKeys) /\ NoTriple) =>
          /\ \A r \in Inserted :
                /\ Cardinality(Holders(r, EB_LEAF)) = 1
                /\ Cardinality(Holders(r, EB_NODE)) <= 1
          /\ Len(TreeLeaves) = nIns
          /\ Cardinality(TreeNodes) = nIns - 1

\* three accepted inserts, two of them of the same key: three leaves, two split
\* points, the first record a leaf only and the last one held in both roles
C15_Witness ==
    /\ nIns = MaxRec /\ ~unique /\ ~DistinctKeys /\ NoTriple
    /\ path \in SplicePaths
    /\ Holders(1, EB_NODE) = {} /\ Cardinality(Holders(1, EB_LEAF)) = 1
    /\ Cardinality(Holders(nIns, EB_NODE)) = 1
    /\ Cardinality(Holders(nIns, EB_LEAF)) = 1
    /\ Cardinality(TreeNodes) = nIns - 1

\* ---- the frame of a splice -------------------------------------------------------
\* C16: an insert that makes the new record a split point changes, of the handle
\* and of the records inserted before, only the slot that held the displaced
\* leaf or subtree, which now holds the new split point, and the parent link of
\* the displaced leaf or of the root of the displaced subtree, which now names
\* the new record; keys, bit indices, every other slot and parent link are as
\* before, and the displaced subtree is a branch of the new split point with
\* its leaves and split points as before.
C16_SpliceFrame ==
    [][ (nIns' = nIns + 1 /\ path' \in SplicePaths \cup {"leaf_dup"}) =>
          \A new \in {nIns + 1} :
          \A d \in {Displaced(nodes', new)} :
          \A up \in {nodes'[new].node_p} :
             /\ SlotOf(root, nodes, up) = d
             /\ SlotOf(root', nodes', up) = ebx_dotag(new, EB_NODE)
             /\ \A sd \in {EB_LEFT, EB_RGHT} :
                   ebx_dotag(RootPtr, sd) # up => root'[sd] = root[sd]
             /\ \A r \in Inserted :
                   /\ nodes'[r].key = nodes[r].key
                   /\ nodes'[r].bit = nodes[r].bit
                   /\ \A sd \in {EB_LEFT, EB_RGHT} :
                         ebx_dotag(r, sd) # up => nodes'[r].b[sd] = nodes[r].b[sd]
                   /\ (r # d.ptr \/ d.tag # EB_LEAF) => nodes'[r].leaf_p = nodes[r].leaf_p
                   /\ (r # d.ptr \/ d.tag # EB_NODE) => nodes'[r].node_p = nodes[r].node_p
             /\ (IF d.tag = EB_LEAF THEN nodes'[d.ptr].leaf_p ELSE nodes'[d.ptr].node_p)
                   = ebx_dotag(new, 1 - NewSide(nodes', new))
             /\ LeafSeq(nodes', d) = LeafSeq(nodes, d)
             /\ NodeSet(nodes', d) = NodeSet(nodes, d)
      ]_vars

\* the last insert spliced the new record above a subtree of two leaves, in a
\* slot of the handle or of another split point
C16_Witness ==
    /\ nIns = MaxRec
    /\ path \in {"node_lt", "node_gt"}
    /\ Len(LeafSeq(nodes, Displaced(nodes, nIns))) = 2
    /\ Cardinality(NodeSet(nodes, Displaced(nodes, nIns))) = 1
    /\ nodes[Displaced(nodes, nIns).ptr].node_p.ptr = nIns
    /\ Len(TreeLeaves) = MaxRec

\* ---- the hand-over to ebx_insert_dup ----------------------------------------------
\* C17: an insert goes through ebx_insert_dup only when its walk stopped at a
\* duplicate anchor (negative bit index) whose key has the KeyLen compared
\* bytes of the new key, in a tree that admits duplicates; when the walk stops
\* at an ordinary split point the new record is spliced above it, on the left
\* or on the right.
C17_DupHandOff ==
    [][ nIns' = nIns + 1 =>
          IF root[EB_LEFT].ptr = NullPtr THEN path' = "empty"
          ELSE \A new \in {nIns + 1} :
               \A s \in {walk_stop([nodes EXCEPT ![new].key = nodes'[new].key], new,
                                   KeyLen * 8, RootPtr, EB_LEFT, root[EB_LEFT], 0)} :
                  /\ path' = "insert_dup" =>
                        /\ s.troot.tag = EB_NODE
                        /\ nodes[s.troot.ptr].bit < 0
                        /\ SamePrefix(nodes'[new].key, nodes[s.troot.ptr].key, KeyLen)
                        /\ \A r \in Range(LeafSeq(nodes, s.troot)) :
                              SamePrefix(nodes'[new].key, nodes[r].key, KeyLen)
                        /\ ~unique
                  /\ (s.troot.tag = EB_NODE /\ nodes[s.troot.ptr].bit >= 0) =>
                        path' \in {"node_lt", "node_gt"}
      ]_vars

\* the last insert met a group of two duplicates of its key and went through
\* ebx_insert_dup
C17_Witness ==
    /\ path = "insert_dup" /\ ~unique /\ ret = nIns
    /\ Len(TreeLeaves) >= 3
    /\ \E a \in TreeNodes :
          /\ nodes[a].bit < 0
          /\ nIns \in Range(LeafSeq(nodes, ebx_dotag(a, EB_NODE)))
          /\ \A r \in Range(LeafSeq(nodes, ebx_dotag(a, EB_NODE))) :
                SamePrefix(nodes[nIns].key, nodes[r].key, KeyLen)
          /\ Len(LeafSeq(nodes, ebx_dotag(a, EB_NODE))) >= 3

\* ---- the length of the walks ------------------------------------------------------
\* the split points the walk_down loop goes through below <troot>
RECURSIVE down_passed(_, _)
down_passed(nd, troot) ==
    IF troot.tag = EB_LEAF THEN 0
    ELSE 1 + down_passed(nd, nd[troot.ptr].b[EB_LEFT])

\* the split points the while(1) loop and the walk_down loop go through from
\* <troot> until the lookup returns
RECURSIVE loop_passed(_, _, _, _, _)
loop_passed(nd, x, troot, pos, len) ==
    LET t == lookup_turn(nd, x, troot, pos, len)
    IN  IF t.k = "ret" THEN 0
        ELSE IF t.k = "walk_left" THEN 1 + down_passed(nd, nd[t.node].b[EB_LEFT])
        ELSE 1 + loop_passed(nd, x, nd[t.node].b[t.side], t.pos, t.len)

\* the split points __ebim_lookup goes through
lookup_passed(rt, nd, x, len) ==
    IF rt[EB_LEFT].ptr = NullPtr THEN 0
    ELSE IF len = 0 THEN down_passed(nd, rt[EB_LEFT])
    ELSE loop_passed(nd, x, rt[EB_LEFT], 0, len)

\* the split points the descent of __ebim_insert goes through for key k
insert_passed(rt, nd, new, k, len) ==
    IF rt[EB_LEFT].ptr = NullPtr THEN 0
    ELSE walk_stop([nd EXCEPT ![new].key = k], new, len * 8, RootPtr, EB_LEFT,
                   rt[EB_LEFT], 0).passed

OrdinaryAbove(r) ==
    {p \in TreeNodes : nodes[p].bit >= 0
                          /\ r \in Range(LeafSeq(nodes, ebx_dotag(p, EB_NODE)))}

KeyOf(nd, r) == SubSeq(nd[r].key, 1, KeyLen)

\* the keys of the leaves below <troot>
KeysBelow(nd, troot) == {KeyOf(nd, r) : r \in Range(LeafSeq(nd, troot))}

\* the split points of the tree without the records that supply them: bit
\* index, keys on the left, keys on the right
SplitShape ==
    {[bit   |-> nodes[p].bit,
      left  |-> KeysBelow(nodes, nodes[p].b[EB_LEFT]),
      right |-> KeysBelow(nodes, nodes[p].b[EB_RGHT])] : p \in TreeNodes}

\* the first bit at which the keys of S are not all the same
FirstSplit(S) ==
    CHOOSE b \in 0..(KeyLen * 8 - 1) :
        /\ \E k1, k2 \in S : BitAt(k1, b) # BitAt(k2, b)
        /\ \A j \in 0..(b - 1) : \A k1, k2 \in S : BitAt(k1, j) = BitAt(k2, j)

\* the split points that the set S of keys determines
RECURSIVE ShapeOf(_)
ShapeOf(S) ==
    IF Cardinality(S) <= 1 THEN {}
    ELSE LET b  == FirstSplit(S)
             S0 == {k \in S : BitAt(k, b) = 0}
             S1 == {k \in S : BitAt(k, b) = 1}
         IN  {[bit |-> b, left |-> S0, right |-> S1]} \cup ShapeOf(S0) \cup ShapeOf(S1)

\* a < b as strings of KeyLen bytes
LexLT(a, b) == \E i \in 1..KeyLen : SamePrefix(a, b, i - 1) /\ a[i] < b[i]

\* C19: after inserts of pairwise distinct keys, in whatever order they came,
\* the leaves are in increasing order of their keys and the split points (bit
\* index, keys on the left, keys on the right) are those that the set of keys
\* determines.
C19_OrderIndependence ==
    DistinctKeys =>
        \A q \in {TreeLeaves} :
            /\ Range(q) = Inserted
            /\ \A i \in 1..(Len(q) - 1) : LexLT(nodes[q[i]].key, nodes[q[i + 1]].key)
            /\ SplitShape = ShapeOf({KeyOf(nodes, r) : r \in Inserted})

\* three distinct keys inserted neither in increasing nor in decreasing order:
\* the split point at the top comes from the second or the third record
C19_Witness ==
    /\ nIns = MaxRec /\ DistinctKeys /\ KeyLen >= 2
    /\ LexLT(nodes[1].key, nodes[3].key) /\ LexLT(nodes[3].key, nodes[2].key)
    /\ TreeLeaves = << 1, 3, 2 >>
    /\ Cardinality(SplitShape) = 2
    /\ SplitShape = ShapeOf({KeyOf(nodes, r) : r \in Inserted})
    /\ root[EB_LEFT].ptr # 1

====
